---- MODULE Spec2Model ----
(***************************************************************************)
(* A model of LibriSpeechWorkload                                          *)
(* (workloads/librispeech/librispeech_jax/workload.py).                    *)
(*                                                                         *)
(* The state is the workload object's attributes, the iterator handed out  *)
(* by build_input_queue, and a record of the last call (its name, its      *)
(* arguments and how it ended: a returned value or a raised exception).    *)
(* Floats are kept as integers in thousandths (0.1 is 100).                *)
(* A pytree is a set of <<path, leaf>> pairs.                              *)
(***************************************************************************)
EXTENDS Integers, Sequences, FiniteSets, TLC

\* ---- bounds of the model ------------------------------------------------
MaxTrain == 3        \* the training set holds 0..MaxTrain examples
MaxBatchSize == 2    \* batch_size ranges over 1..MaxBatchSize
ValidSize == 1       \* the validation set holds ValidSize examples

\* ---- values ---------------------------------------------------------------
None == [py |-> "None"]
Return(v) == [kind |-> "return", val |-> v]
Raise(e) == [kind |-> "raise", val |-> e]
Returned(r) == r.kind = "return"
Raised(r, e) == r.kind = "raise" /\ r.val = e

\* Thousandths used as eval_result inputs, on both sides of the target.
EvalResults == {0, 99, 100, 101}

\* ---- __init__: the label alphabet ----------------------------------------
\* The dict literal, in source order, as <<key, value>> items.
Letters == <<"A", "B", "C", "D", "E", "F", "G", "H", "I", "J", "K", "L", "M",
             "N", "O", "P", "Q", "R", "S", "T", "U", "V", "W", "X", "Y", "Z">>

LabelItemsShifted ==
  <<<<"_", 0>>, <<" ", 1>>, <<"'", 2>>>> \o
  [i \in 1..26 |-> <<Letters[i], IF i = 26 THEN 27 ELSE i + 2>>]

LabelItems ==
  <<<<"_", 0>>, <<" ", 1>>, <<"'", 2>>>> \o
  [i \in 1..26 |-> <<Letters[i], i + 2>>]

\* A Python dict built from items in order: a later item with the same key
\* replaces the earlier one.  A dict is a set of <<key, value>> pairs.
RECURSIVE DictFromItems(_)
DictFromItems(items) ==
  IF items = <<>> THEN {}
  ELSE LET n == Len(items)
           rest == DictFromItems(SubSeq(items, 1, n - 1))
           last == items[n]
       IN {kv \in rest : kv[1] # last[1]} \cup {last}

Keys(d) == {kv[1] : kv \in d}
Values(d) == {kv[2] : kv \in d}
Get(d, k) == (CHOOSE kv \in d : kv[1] = k)[2]

\* {v: k for k, v in d.items()}: items are visited in insertion order.
SwapItems(items) == [i \in 1..Len(items) |-> <<items[i][2], items[i][1]>>]

\* ---- the configuration accessors ----------------------------------------
target_value == 100
num_train_examples == 28539
num_eval_examples == 2620
train_mean == 0
train_stddev == 1000
max_allowed_runtime_sec == 80000
eval_period_time_sec == 800
loss_type == "CTC_LOSS"

AccessorNames == {"target_value", "loss_type", "num_train_examples",
                  "num_eval_examples", "train_mean", "train_stddev",
                  "max_allowed_runtime_sec", "eval_period_time_sec"}

AccessorSwapped(name) ==
  CASE name = "target_value" -> Return(target_value)
    [] name = "loss_type" -> Return(loss_type)
    [] name = "num_train_examples" -> Return(num_train_examples)
    [] name = "num_eval_examples" -> Return(num_eval_examples)
    [] name = "train_mean" -> Return(train_mean)
    [] name = "train_stddev" -> Return(train_stddev)
    [] name = "max_allowed_runtime_sec" -> Return(eval_period_time_sec)
    [] name = "eval_period_time_sec" -> Return(max_allowed_runtime_sec)

Accessor(name) ==
  CASE name = "target_value" -> Return(target_value)
    [] name = "loss_type" -> Return(loss_type)
    [] name = "num_train_examples" -> Return(num_train_examples)
    [] name = "num_eval_examples" -> Return(num_eval_examples)
    [] name = "train_mean" -> Return(train_mean)
    [] name = "train_stddev" -> Return(train_stddev)
    [] name = "max_allowed_runtime_sec" -> Return(max_allowed_runtime_sec)
    [] name = "eval_period_time_sec" -> Return(eval_period_time_sec)

\* ---- has_reached_goal -----------------------------------------------------
HasReachedGoalLe(eval_result) == eval_result <= target_value

HasReachedGoal(eval_result) == eval_result < target_value


\* ---- preprocess_for_train / preprocess_for_eval --------------------------
RawBatches == {<<1200>>, <<1200, 3400>>}
LabelBatches == {<<3>>, <<3, 4>>}
\* train_mean, train_stddev and rng as they are passed together
Normalizers == {[train_mean |-> 0, train_stddev |-> 1000, rng |-> 0],
                [train_mean |-> 500, train_stddev |-> 2000, rng |-> 1]}
Rngs == {0}

PreprocessForTrainNormalized(raw, label, mean, stddev, rng) ==
  <<[i \in DOMAIN raw |-> ((raw[i] - mean) * 1000) \div stddev], label>>

PreprocessForTrain(raw, label, mean, stddev, rng) == <<raw, label>>

PreprocessForEval(raw, mean, stddev) == raw

\* ---- param_shapes ----------------------------------------------------------
\* An attribute slot of the instance: never assigned ("missing"), holding
\* None ("none") or holding a pytree ("tree").
Missing == [tag |-> "missing", tree |-> {}]
HoldsNone == [tag |-> "none", tree |-> {}]
Holds(t) == [tag |-> "tree", tree |-> t]

ParamShapesInverted(attr) ==
  IF attr.tag = "missing" THEN Raise("AttributeError")
  ELSE IF attr.tag # "none" THEN Raise("ValueError")
  ELSE Return(attr.tree)

ParamShapes(attr) ==
  IF attr.tag = "missing" THEN Raise("AttributeError")
  ELSE IF attr.tag = "none" THEN Raise("ValueError")
  ELSE Return(attr.tree)

\* ---- init_model_fn --------------------------------------------------------
Replicas == 1..2      \* the devices the framework replicates over

Array(shape, fill) == [shape |-> shape, fill |-> fill]
ParamTrees ==
  { {<<"conv/kernel", Array(<<3, 3>>, 1)>>},
    {<<"conv/kernel", Array(<<3, 3>>, 1)>>, <<"lstm/kernel", Array(<<4>>, 0)>>} }
StateTrees == { {<<"batch_stats/mean", Array(<<4>>, 0)>>} }

\* What self._model.init(...)['params'] can be: an iterable of elements,
\* each either a string (a mapping iterates over its keys) or a pytree.
Str(s) == [k |-> "str", s |-> s, leaves |-> {}]
Tree(l) == [k |-> "tree", s |-> "", leaves |-> l]
InitOutputs ==
  {<<Tree(p), Tree(m)>> : p \in ParamTrees, m \in StateTrees}
    \cup {<<Str("conv")>>, <<Str("conv"), Str("lstm")>>,
          <<Str("conv"), Str("lstm"), Str("dense")>>}

\* jax.tree_map(lambda x: spec.ShapeTuple(x.shape), params)
ShapeTree(leaves) == {<<kv[1], kv[2].shape>> : kv \in leaves}
\* jax_utils.replicate: every leaf gains a leading device axis
Replicate(leaves) ==
  {<<kv[1], Array(<<Cardinality(Replicas)>> \o kv[2].shape, kv[2].fill)>> : kv \in leaves}

\* The outcome of init_model_fn on an init output: the attribute written
\* (or the old one when the call raised before line 171 completed) and the
\* result of the call.
InitModelFn(attr, out) ==
  IF Len(out) # 2 THEN [attr |-> attr, result |-> Raise("ValueError")]
  ELSE LET params == out[1]
           model_state == out[2]
       IN IF params.k = "str"
          THEN [attr |-> attr, result |-> Raise("AttributeError")]
          ELSE [attr |-> Holds(ShapeTree(params.leaves)),
                result |-> Return(<<Replicate(params.leaves),
                                    Replicate(model_state.leaves)>>)]

\* ---- sync_batch_stats ------------------------------------------------------
\* Names bound at module level by the import statements.
ModuleGlobals == {"itertools", "os", "Tuple", "ctcdecode", "jax", "jnp",
                  "Levenshtein", "np", "spec", "torch", "jax_utils", "nn",
                  "ctc_loss", "input_pipeline", "models"}

Stats == {0, 1000}
BatchStats == [Replicas -> Stats]
ModelStates == [batch_stats : BatchStats, cache : {7}]

RECURSIVE Sum(_)
Sum(xs) == IF xs = <<>> THEN 0 ELSE xs[1] + Sum(Tail(xs))
Mean(xs) == Sum(xs) \div Len(xs)
\* lax.pmean(x, 'x') under pmap: every replica gets the mean over replicas
PMean(xs) == [i \in DOMAIN xs |-> Mean(xs)]

\* avg_fn(x): calling the lambda looks up the global name lax
AvgFn(x) ==
  IF "lax" \in ModuleGlobals THEN Return(PMean(x)) ELSE Raise("NameError")

SyncBatchStats(model_state) ==
  LET avg == AvgFn(model_state.batch_stats)
  IN IF Returned(avg)
     THEN Return([model_state EXCEPT !.batch_stats = avg.val])
     ELSE avg


\* ---- Python values whose type the code depends on ------------------------
\* Each type has its own field, so values of different types are unequal.
PyTuple(items) == [tuple |-> items]
NdArray(a) == [ndarray |-> a]
HasShape(v) == "ndarray" \in DOMAIN v

\* ---- model_fn --------------------------------------------------------------
Modes == {"TRAIN", "EVAL"}
\* What one forward pass of the model can produce: the (log_y,
\* output_lengths) outputs and, for a mutable apply, the batch_stats
\* collection it updated.
ModelOutputs ==
  {PyTuple(<<NdArray(y), NdArray("output_lengths")>>) : y \in {"log_y"}}
NoApply == [called |-> FALSE, training |-> FALSE, mutable |-> FALSE,
            outputs |-> PyTuple(<<>>), mutated |-> <<>>]

\* self._model.apply(variables, ..., training=train[, mutable=[...]]): with a
\* mutable collection the call returns the pair (outputs, mutated
\* collections), without one it returns the outputs alone.
Apply(outputs, mutated, mutable) ==
  IF mutable THEN PyTuple(<<outputs, [batch_stats |-> mutated]>>) ELSE outputs

\* The running statistics of each replica after one more forward pass.
Advance(bs) ==
  [i \in DOMAIN bs |-> IF bs[i] = 1000 THEN 0 ELSE 1000]

\* Both branches unpack the value of apply into log_y, output_lengths and
\* return ((log_y, output_lengths), model_state).
ModelFn(model_state, mode, update_batch_norm, outputs, mutated) ==
  LET train == (mode = "TRAIN")
      applied == Apply(outputs, mutated, update_batch_norm)
      log_y == applied.tuple[1]
      output_lengths == applied.tuple[2]
  IN [result |-> Return(PyTuple(<<PyTuple(<<log_y, output_lengths>>), model_state>>)),
      apply |-> [called |-> TRUE, training |-> train,
                 mutable |-> update_batch_norm,
                 outputs |-> outputs, mutated |-> mutated]]

\* ---- loss_fn ---------------------------------------------------------------
Widths == 1..2       \* log_y.shape[1] and the width of label_batch
Labels == {0, 3}     \* 0 pads a label row, 3 is "A"

\* [0]*x + [1]*(max_length-x); a negative count gives the empty list
Repeat(v, n) == [i \in 1..(IF n < 0 THEN 0 ELSE n) |-> v]
PaddingRow(x, max_length) == Repeat(0, x) \o Repeat(1, max_length - x)
\* len(y[y != 0])
CountNonzero(y) == Cardinality({i \in DOMAIN y : y[i] # 0})

\* logits_batch is the pair (log_y, output_lengths); log_y is known by its
\* shape [batch, time].
\* Two examples a batch: the first of any length, the second of full length;
\* the first label row is arbitrary, the second all padding.
LogitsBatches ==
  UNION {{PyTuple(<<NdArray(<<2, t>>), <<x, t>>>>) : x \in 0..t} : t \in Widths}
LossLabelBatches ==
  UNION {{<<row, [i \in 1..w |-> 0]>> : row \in [1..w -> Labels]} : w \in Widths}

\* What loss_fn hands to self._loss (the CTC kernel), whose mean it returns.
CtcCall(logprobspaddings, labelspaddings) ==
  [loss |-> "mean_ctc", logprobspaddings |-> logprobspaddings,
   labelspaddings |-> labelspaddings]

LogProbsPaddings(logits_batch) ==
  LET log_y == logits_batch.tuple[1]
      output_lengths == logits_batch.tuple[2]
      max_length == log_y.ndarray[2]
  IN [i \in DOMAIN output_lengths |-> PaddingRow(output_lengths[i], max_length)]

\* Line 207 reads logits_batch.shape; logits_batch is the tuple unpacked on
\* line 203, and a tuple has no attribute shape.
LossFn(label_batch, logits_batch) ==
  LET logprobspaddings == LogProbsPaddings(logits_batch)
      labels_lengths == [i \in DOMAIN label_batch |-> CountNonzero(label_batch[i])]
  IN IF ~HasShape(logits_batch) THEN Raise("AttributeError")
     ELSE LET max_length == logits_batch.ndarray[2]
              labelspaddings ==
                [i \in DOMAIN labels_lengths |-> PaddingRow(labels_lengths[i], max_length)]
          IN Return(CtcCall(logprobspaddings, labelspaddings))

\* ---- build_input_queue -----------------------------------------------------
Splits == {"train", "eval_train"}

\* torch.utils.data.DataLoader(dataset, batch_size=..., shuffle=...)
DataLoader(dataset, size, batch_size, shuffle) ==
  [dataset |-> dataset, size |-> size, batch_size |-> batch_size,
   shuffle |-> shuffle]

\* The orders a seeded shuffle of n examples is drawn from.
Orders(n) == {[i \in 1..n |-> i], [i \in 1..n |-> n + 1 - i]}
NumBatches(n, b) == (n + b - 1) \div b
\* The batches of one pass of a loader over examples in the order `order`:
\* consecutive groups of batch_size, the last one possibly short.
Batches(dataset, order, b) ==
  [k \in 1..NumBatches(Len(order), b) |->
     [dataset |-> dataset,
      ids |-> SubSeq(order, (k - 1) * b + 1,
                     IF k * b > Len(order) THEN Len(order) ELSE k * b)]]

\* itertools.cycle(iterable): src is what the underlying iterator has yet to
\* yield (live while the first pass lasts), saved the items seen so far.
Cycle(batches) == [live |-> TRUE, src |-> batches, saved |-> <<>>, idx |-> 1]

CycleNextOnce(it) ==
  IF it.live /\ it.src # <<>>
  THEN [it |-> [it EXCEPT !.src = Tail(it.src), !.saved = Append(it.saved, Head(it.src))],
        result |-> Return(Head(it.src))]
  ELSE [it |-> [it EXCEPT !.live = FALSE], result |-> Raise("StopIteration")]

CycleNext(it) ==
  IF it.live /\ it.src # <<>>
  THEN [it |-> [it EXCEPT !.src = Tail(it.src), !.saved = Append(it.saved, Head(it.src))],
        result |-> Return(Head(it.src))]
  ELSE IF it.saved = <<>>
  THEN [it |-> [it EXCEPT !.live = FALSE], result |-> Raise("StopIteration")]
  ELSE [it |-> [it EXCEPT !.live = FALSE,
                          !.idx = IF it.idx = Len(it.saved) THEN 1 ELSE it.idx + 1],
        result |-> Return(it.saved[it.idx])]

\* split is not read; the queue cycles over self._train_loader.
BuildInputQueue(split, train_size, valid_size, batch_size, order) ==
  [train_loader |-> DataLoader("train", train_size, batch_size, TRUE),
   valid_loader |-> DataLoader("valid", valid_size, batch_size, FALSE),
   queue |-> Cycle(Batches("train", order, batch_size))]


\* ---- the state -------------------------------------------------------------
VARIABLES
  _train_loader,    \* self._train_loader
  _valid_loader,    \* self._valid_loader
  _label_dict,      \* self._label_dict
  _rev_label_dict,  \* self._rev_label_dict
  _param_shapes,    \* the attribute slot self._param_shapes
  queue,            \* the iterator build_input_queue returned last, or None
  op,               \* the last call
  args,             \* its arguments
  result,           \* how it ended: Return(value) or Raise(exception)
  apply,            \* the call it made to self._model.apply, or NoApply
  passLog,          \* the batches the queue yielded in its current pass
  initCalled,       \* init_model_fn has been called at least once
  initReturned      \* init_model_fn has returned successfully at least once

workload == <<_train_loader, _valid_loader, _label_dict, _rev_label_dict,
              _param_shapes>>
vars == <<_train_loader, _valid_loader, _label_dict, _rev_label_dict,
          _param_shapes, queue, op, args, result, apply, passLog, initCalled,
          initReturned>>

\* __init__ assigns _train_loader, _valid_loader, _model, _label_dict,
\* _rev_label_dict, _decoder and _loss; it assigns no _param_shapes.
Init ==
  /\ _train_loader = None
  /\ _valid_loader = None
  /\ _label_dict = DictFromItems(LabelItems)
  /\ _rev_label_dict = DictFromItems(SwapItems(LabelItems))
  /\ _param_shapes = Missing
  /\ queue = None
  /\ op = "__init__"
  /\ args = <<>>
  /\ result = Return(None)
  /\ apply = NoApply
  /\ passLog = <<>>
  /\ initCalled = FALSE
  /\ initReturned = FALSE

Call(name, a, r) == op' = name /\ args' = a /\ result' = r

has_reached_goal ==
  \E eval_result \in EvalResults :
    /\ Call("has_reached_goal", [eval_result |-> eval_result],
            Return(HasReachedGoal(eval_result)))
    /\ apply' = NoApply
    /\ UNCHANGED <<workload, queue, passLog, initCalled, initReturned>>

accessor ==
  \E name \in AccessorNames :
    /\ Call("accessor", [name |-> name], Accessor(name))
    /\ apply' = NoApply
    /\ UNCHANGED <<workload, queue, passLog, initCalled, initReturned>>

preprocess_for_train ==
  \E raw \in RawBatches, label \in LabelBatches, n \in Normalizers :
    /\ Call("preprocess_for_train",
            [raw |-> raw, label |-> label, train_mean |-> n.train_mean,
             train_stddev |-> n.train_stddev, rng |-> n.rng],
            Return(PreprocessForTrain(raw, label, n.train_mean,
                                      n.train_stddev, n.rng)))
    /\ apply' = NoApply
    /\ UNCHANGED <<workload, queue, passLog, initCalled, initReturned>>

preprocess_for_eval ==
  \E raw \in RawBatches, n \in Normalizers :
    /\ Call("preprocess_for_eval",
            [raw |-> raw, train_mean |-> n.train_mean,
             train_stddev |-> n.train_stddev],
            Return(PreprocessForEval(raw, n.train_mean, n.train_stddev)))
    /\ apply' = NoApply
    /\ UNCHANGED <<workload, queue, passLog, initCalled, initReturned>>

param_shapes ==
  /\ Call("param_shapes", <<>>, ParamShapes(_param_shapes))
  /\ apply' = NoApply
  /\ UNCHANGED <<workload, queue, passLog, initCalled, initReturned>>

init_model_fn ==
  \E rng \in Rngs, out \in InitOutputs :
    LET done == InitModelFn(_param_shapes, out)
    IN /\ Call("init_model_fn", [rng |-> rng, out |-> out], done.result)
       /\ _param_shapes' = done.attr
       /\ initCalled' = TRUE
       /\ initReturned' = (initReturned \/ Returned(done.result))
       /\ apply' = NoApply
       /\ UNCHANGED <<_train_loader, _valid_loader, _label_dict,
                      _rev_label_dict, queue, passLog>>

sync_batch_stats ==
  \E model_state \in ModelStates :
    /\ Call("sync_batch_stats", [model_state |-> model_state],
            SyncBatchStats(model_state))
    /\ apply' = NoApply
    /\ UNCHANGED <<workload, queue, passLog, initCalled, initReturned>>

model_fn ==
  \E model_state \in ModelStates, mode \in Modes, update_batch_norm \in BOOLEAN,
     outputs \in ModelOutputs :
    \E mutated \in {model_state.batch_stats, Advance(model_state.batch_stats)} :
      LET done == ModelFn(model_state, mode, update_batch_norm, outputs, mutated)
      IN /\ Call("model_fn",
                 [model_state |-> model_state, mode |-> mode,
                  update_batch_norm |-> update_batch_norm],
                 done.result)
         /\ apply' = done.apply
         /\ UNCHANGED <<workload, queue, passLog, initCalled, initReturned>>

loss_fn ==
  \E label_batch \in LossLabelBatches, logits_batch \in LogitsBatches :
    /\ Call("loss_fn", [label_batch |-> label_batch, logits_batch |-> logits_batch],
            LossFn(label_batch, logits_batch))
    /\ apply' = NoApply
    /\ UNCHANGED <<workload, queue, passLog, initCalled, initReturned>>

build_input_queue ==
  \E split \in Splits, train_size \in 0..MaxTrain, batch_size \in 1..MaxBatchSize :
    \E order \in Orders(train_size) :
      LET built == BuildInputQueue(split, train_size, ValidSize, batch_size, order)
      IN /\ Call("build_input_queue",
                 [split |-> split, batch_size |-> batch_size], Return(None))
         /\ _train_loader' = built.train_loader
         /\ _valid_loader' = built.valid_loader
         /\ queue' = built.queue
         /\ passLog' = <<>>
         /\ apply' = NoApply
         /\ UNCHANGED <<_label_dict, _rev_label_dict, _param_shapes, initCalled,
                        initReturned>>

\* next() on the iterator build_input_queue returned
next_batch ==
  /\ queue # None
  /\ LET step == CycleNext(queue)
         full == Len(passLog) = NumBatches(_train_loader.size, _train_loader.batch_size)
     IN /\ Call("next", <<>>, step.result)
        /\ queue' = step.it
        /\ passLog' = IF Returned(step.result)
                      THEN (IF full THEN <<>> ELSE passLog) \o <<step.result.val>>
                      ELSE passLog
  /\ apply' = NoApply
  /\ UNCHANGED <<workload, initCalled, initReturned>>

Next ==
  \/ has_reached_goal
  \/ accessor
  \/ preprocess_for_train
  \/ preprocess_for_eval
  \/ param_shapes
  \/ init_model_fn
  \/ sync_batch_stats
  \/ model_fn
  \/ loss_fn
  \/ build_input_queue
  \/ next_batch

Spec == Init /\ [][Next]_vars


\* ---- the claims ------------------------------------------------------------
NumTrainBatches == NumBatches(_train_loader.size, _train_loader.batch_size)
RECURSIVE Ids(_)
Ids(batches) == IF batches = <<>> THEN <<>> ELSE Head(batches).ids \o Ids(Tail(batches))
Range(f) == {f[i] : i \in DOMAIN f}

\* C1: has_reached_goal(eval_result) returns true exactly when eval_result is
\* strictly below the target 0.1 (100 thousandths), whatever was called
\* before; an eval_result equal to the target does not reach the goal.
C1_HasReachedGoal ==
  op = "has_reached_goal" => result = Return(args.eval_result < 100)

C1_Witness ==
  /\ op = "has_reached_goal"
  /\ args.eval_result = 100
  /\ result = Return(FALSE)
  /\ initReturned
  /\ queue # None

\* C2: reading param_shapes before any call to init_model_fn raises
\* ValueError and leaves the workload unchanged.
C2_FreshParamShapesValueError ==
  [][(op' = "param_shapes" /\ ~initCalled)
       => (Raised(result', "ValueError") /\ UNCHANGED workload)]_vars

\* C3: once init_model_fn has returned successfully, _param_shapes holds the
\* shape tree of the parameters it initialised, param_shapes returns it
\* without raising, and no call other than init_model_fn changes it.
C3_ParamShapesPersist ==
  [][/\ (op' = "init_model_fn" /\ Returned(result'))
          => _param_shapes' =
               Holds({<<kv[1], kv[2].shape>> : kv \in args'.out[1].leaves})
     /\ initReturned
          => /\ _param_shapes.tag = "tree"
             /\ op' # "init_model_fn" => _param_shapes' = _param_shapes
             /\ op' = "param_shapes" => result' = Return(_param_shapes.tree)]_vars

C3_Witness ==
  /\ op = "param_shapes"
  /\ initReturned
  /\ Returned(result)
  /\ result.val = {<<"conv/kernel", <<3, 3>>>>, <<"lstm/kernel", <<4>>>>}
  /\ queue # None
  /\ passLog # <<>>

\* C4: _label_dict has exactly 29 entries with the codes 0..28 ('_' 0, ' ' 1,
\* "'" 2, 'A'..'Z' 3..28), _rev_label_dict is its inverse, and both stay so
\* in every state.
C4_LabelBijection ==
  /\ Cardinality(_label_dict) = 29
  /\ Cardinality(Keys(_label_dict)) = 29
  /\ Values(_label_dict) = 0..28
  /\ Cardinality(_rev_label_dict) = 29
  /\ Keys(_rev_label_dict) = 0..28
  /\ Get(_label_dict, "_") = 0
  /\ Get(_label_dict, " ") = 1
  /\ Get(_label_dict, "'") = 2
  /\ \A i \in 1..26 : Get(_label_dict, Letters[i]) = i + 2
  /\ \A c \in Keys(_label_dict) : Get(_rev_label_dict, Get(_label_dict, c)) = c
  /\ \A i \in 0..28 : Get(_label_dict, Get(_rev_label_dict, i)) = i

C4_Witness ==
  /\ op = "next"
  /\ initReturned
  /\ Get(_rev_label_dict, 28) = "Z"
  /\ Get(_label_dict, "A") = 3

\* C5: preprocess_for_train returns exactly the (input, label) pair it was
\* given and preprocess_for_eval exactly its input batch, whatever
\* train_mean, train_stddev and rng are, and neither changes the workload.
C5_PreprocessPassThrough ==
  [][/\ op' = "preprocess_for_train"
          => /\ result' = Return(<<args'.raw, args'.label>>)
             /\ UNCHANGED <<workload, queue>>
     /\ op' = "preprocess_for_eval"
          => /\ result' = Return(args'.raw)
             /\ UNCHANGED <<workload, queue>>]_vars

C5_Witness ==
  /\ op = "preprocess_for_train"
  /\ args.train_mean = 500
  /\ args.raw = <<1200, 3400>>
  /\ result = Return(<<<<1200, 3400>>, args.label>>)
  /\ initReturned

\* C6: in every state the accessors return target_value 0.1, loss_type
\* CTC_LOSS, num_train_examples 28539, num_eval_examples 2620, train_mean 0.0,
\* train_stddev 1.0, max_allowed_runtime_sec 80000 and eval_period_time_sec
\* 800 (floats in thousandths).
C6_AccessorsConstant ==
  op = "accessor" =>
    result = CASE args.name = "target_value" -> Return(100)
               [] args.name = "loss_type" -> Return("CTC_LOSS")
               [] args.name = "num_train_examples" -> Return(28539)
               [] args.name = "num_eval_examples" -> Return(2620)
               [] args.name = "train_mean" -> Return(0)
               [] args.name = "train_stddev" -> Return(1000)
               [] args.name = "max_allowed_runtime_sec" -> Return(80000)
               [] args.name = "eval_period_time_sec" -> Return(800)

C6_Witness ==
  /\ op = "accessor"
  /\ args.name = "eval_period_time_sec"
  /\ result = Return(800)
  /\ initReturned
  /\ queue # None

\* C7: sync_batch_stats returns a new model state in which every replica's
\* batch_stats is the mean over the replicas and every other entry is
\* carried over.
C7_SyncBatchStatsAverages ==
  op = "sync_batch_stats" =>
    /\ Returned(result)
    /\ \A r \in Replicas :
         result.val.batch_stats[r] * Cardinality(Replicas)
           = Sum([i \in 1..Cardinality(Replicas) |-> args.model_state.batch_stats[i]])
    /\ result.val.cache = args.model_state.cache

\* C8: with update_batch_norm true, model_fn returns the (log_y,
\* output_lengths) outputs of the forward pass as its first component and the
\* state whose batch_stats the forward pass updated as its second; the model
\* runs in training mode exactly when mode is TRAIN.
C8_ModelFnReturnsUpdatedState ==
  (op = "model_fn" /\ args.update_batch_norm) =>
    /\ apply.called
    /\ apply.training <=> (args.mode = "TRAIN")
    /\ result.val.tuple[2].batch_stats = apply.mutated
    /\ result.val.tuple[1] = apply.outputs

\* C9: for output_lengths within 0..log_y.shape[1], loss_fn returns the mean
\* CTC loss over masks shaped like the sequences: row i of the log-probability
\* mask is output_lengths[i] zeros then ones, of width log_y.shape[1]; row i
\* of the label mask is zero on the first n_i positions (n_i nonzero labels)
\* and one after, of the width of label_batch.
C9_LossFnMasksAndMean ==
  LET log_y == args.logits_batch.tuple[1]
      lens == args.logits_batch.tuple[2]
      t == log_y.ndarray[2]
      w == Len(args.label_batch[1])
  IN (op = "loss_fn" /\ \A i \in DOMAIN lens : lens[i] \in 0..t) =>
       /\ Returned(result)
       /\ result.val.logprobspaddings =
            [i \in DOMAIN lens |-> [j \in 1..t |-> IF j <= lens[i] THEN 0 ELSE 1]]
       /\ result.val.labelspaddings =
            [i \in DOMAIN args.label_batch |->
               [j \in 1..w |-> IF j <= CountNonzero(args.label_batch[i]) THEN 0 ELSE 1]]

\* C10: build_input_queue stores a training and a validation loader with the
\* requested batch_size; the iterator it returns yields training batches
\* whatever split was asked for, never signals exhaustion when the training
\* loader has at least one batch, and every pass yields every training
\* example in batches of at most batch_size.
C10_EndlessTrainQueue ==
  /\ op = "build_input_queue"
       => /\ _train_loader # None /\ _valid_loader # None
          /\ _train_loader.dataset = "train" /\ _valid_loader.dataset = "valid"
          /\ _train_loader.batch_size = args.batch_size
          /\ _valid_loader.batch_size = args.batch_size
  /\ queue # None => _train_loader # None /\ _valid_loader # None
  /\ (op = "next" /\ _train_loader.size >= 1)
       => /\ Returned(result)
          /\ result.val.dataset = "train"
          /\ Len(result.val.ids) \in 1.._train_loader.batch_size
  /\ (queue # None /\ Len(passLog) = NumTrainBatches)
       => /\ Len(Ids(passLog)) = _train_loader.size
          /\ Range(Ids(passLog)) = 1.._train_loader.size

C10_Witness ==
  /\ op = "next"
  /\ ~queue.live
  /\ NumTrainBatches >= 2
  /\ Len(passLog) = NumTrainBatches
  /\ _train_loader.size = MaxTrain
  /\ Returned(result)

====
